---- MODULE Spec2Model ----
(***************************************************************************)
(* Model of the Pithon tree-walking evaluator                              *)
(* (src/src/pithon/evaluator/evaluator.py).                                *)
(*                                                                         *)
(* The evaluator is a big-step function from (AST node, frame, store) to   *)
(* (outcome, store).  A Python exception leaving a function is modelled as *)
(* an outcome whose field sig is not "ok": "return", "break", "continue"   *)
(* for the three control exceptions, "TypeError", "NameError",             *)
(* "AttributeError", "IndexError" for the errors.  The store st holds      *)
(*   frames : the EnvFrame objects, in order of creation (frame 1 is the   *)
(*            root frame), each a name->value mapping and a parent index   *)
(*   objs   : the VObject instances, in order of creation                  *)
(*   argn   : the arg_names list of every function-definition node, the    *)
(*            one field of an AST node that the source assigns to          *)
(*   trace  : history variable, the ids of the nodes evaluate_stmt was     *)
(*            entered with, in order                                       *)
(* The driver evaluates the statements of a program one after the other    *)
(* in the root frame; each step of the state machine is one iteration of   *)
(* the for loop of evaluate().                                             *)
(***************************************************************************)
EXTENDS Integers, Sequences, FiniteSets, TLC

VARIABLES input, pc, st, last_value, last

vars == <<input, pc, st, last_value, last>>

-----------------------------------------------------------------------------
(* Bounds of the model *)

\* iterations a while loop may run before the model gives up ("Diverge")
MaxIter == 4
\* fixed parameters a generated function declares, arguments a call supplies
MaxParams == 2
MaxArgs == 3
\* length of the list a generated for loop iterates
MaxList == 3
\* nesting depth of generated loops
MaxDepth == 2

-----------------------------------------------------------------------------
(* Runtime values (envvalue.py) *)

VNumber(n) == [k |-> "num", v |-> n]
VBool(b) == [k |-> "bool", v |-> b]
\* the payload of a string is the sequence of its characters
VString(s) == [k |-> "str", v |-> s]
VNone == [k |-> "none", v |-> "None"]
VList(elements) == [k |-> "list", v |-> elements]
VTuple(elements) == [k |-> "tuple", v |-> elements]
VFunctionClosure(fd, env) == [k |-> "closure", funcdef |-> fd, closure_env |-> env]
VMethodClosure(function, instance) ==
    [k |-> "method", function |-> function, instance |-> instance]
VClassDef(name, methods) == [k |-> "class", name |-> name, methods |-> methods]
VObject(ref) == [k |-> "object", ref |-> ref]

\* Python truth value of the payload of a value (`obj.value` used as a condition)
Truthy(obj) ==
    CASE obj.k = "bool" -> obj.v
      [] obj.k = "num" -> obj.v # 0
      [] obj.k = "str" -> Len(obj.v) > 0
      [] obj.k = "none" -> FALSE
      [] obj.k \in {"list", "tuple"} -> Len(obj.v) > 0
      [] OTHER -> TRUE

\* check_type(value, VBool) of primitive.py: the value, or a TypeError
check_type_ok(value, kind) == value.k = kind

-----------------------------------------------------------------------------
(* Outcomes *)

Ok(s, value) == [st |-> s, sig |-> "ok", val |-> value]
Raise(s, exc) == [st |-> s, sig |-> exc, val |-> VNone]
ReturnException(s, value) == [st |-> s, sig |-> "return", val |-> value]
BreakException(s) == [st |-> s, sig |-> "break", val |-> VNone]
ContinueException(s) == [st |-> s, sig |-> "continue", val |-> VNone]

-----------------------------------------------------------------------------
(* Environment frames (envframe.py) *)

EmptyVars == [n \in {} |-> VNone]

\* EnvFrame(parent=p): the store with one more frame, whose index is Len+1
EnvFrame(s, parent) ==
    [s EXCEPT !.frames = Append(@, [vars |-> EmptyVars, parent |-> parent])]

NewFrame(s) == Len(s.frames) + 1

\* env.insert(name, value): current frame only
insert(s, env, name, value) ==
    [s EXCEPT !.frames[env].vars =
        [n \in (DOMAIN @) \cup {name} |-> IF n = name THEN value ELSE @[n]]]

\* env.lookup(name): current frame, then each ancestor; 0 is "no parent"
RECURSIVE lookup(_, _, _)
lookup(s, env, name) ==
    IF env = 0 THEN Raise(s, "NameError")
    ELSE IF name \in DOMAIN s.frames[env].vars
         THEN Ok(s, s.frames[env].vars[name])
         ELSE lookup(s, s.frames[env].parent, name)

-----------------------------------------------------------------------------
(* AST nodes (pithon.syntax).  Every node carries an id, used by the trace. *)
(* A function definition node is named by its index fd in the table        *)
(* FuncDef; its name, vararg and body are read from the table, its         *)
(* arg_names list from the store (st.argn[fd]).                            *)

PiNumber(id, value) == [tag |-> "PiNumber", id |-> id, value |-> value]
PiBool(id, value) == [tag |-> "PiBool", id |-> id, value |-> value]
PiNone(id) == [tag |-> "PiNone", id |-> id]
PiString(id, value) == [tag |-> "PiString", id |-> id, value |-> value]
PiList(id, elements) == [tag |-> "PiList", id |-> id, elements |-> elements]
PiTuple(id, elements) == [tag |-> "PiTuple", id |-> id, elements |-> elements]
PiVariable(id, name) == [tag |-> "PiVariable", id |-> id, name |-> name]
PiBinaryOperation(id, left, operator, right) ==
    [tag |-> "PiBinaryOperation", id |-> id, left |-> left, operator |-> operator,
     right |-> right]
PiAssignment(id, name, value) ==
    [tag |-> "PiAssignment", id |-> id, name |-> name, value |-> value]
PiIfThenElse(id, condition, then_branch, else_branch) ==
    [tag |-> "PiIfThenElse", id |-> id, condition |-> condition,
     then_branch |-> then_branch, else_branch |-> else_branch]
PiNot(id, operand) == [tag |-> "PiNot", id |-> id, operand |-> operand]
PiAnd(id, left, right) == [tag |-> "PiAnd", id |-> id, left |-> left, right |-> right]
PiOr(id, left, right) == [tag |-> "PiOr", id |-> id, left |-> left, right |-> right]
PiWhile(id, condition, body) ==
    [tag |-> "PiWhile", id |-> id, condition |-> condition, body |-> body]
PiFunctionDef(id, fd) == [tag |-> "PiFunctionDef", id |-> id, fd |-> fd]
PiReturn(id, value) == [tag |-> "PiReturn", id |-> id, value |-> value]
PiFunctionCall(id, function, args) ==
    [tag |-> "PiFunctionCall", id |-> id, function |-> function, args |-> args]
PiFor(id, var, iterable, body) ==
    [tag |-> "PiFor", id |-> id, var |-> var, iterable |-> iterable, body |-> body]
PiBreak(id) == [tag |-> "PiBreak", id |-> id]
PiContinue(id) == [tag |-> "PiContinue", id |-> id]
PiIn(id, element, container) ==
    [tag |-> "PiIn", id |-> id, element |-> element, container |-> container]
PiSubscript(id, collection, index) ==
    [tag |-> "PiSubscript", id |-> id, collection |-> collection, index |-> index]
PiClassDef(id, name, methods) ==
    [tag |-> "PiClassDef", id |-> id, name |-> name, methods |-> methods]
PiAttribute(id, object, attr) ==
    [tag |-> "PiAttribute", id |-> id, object |-> object, attr |-> attr]
PiAttributeAssignment(id, object, attr, value) ==
    [tag |-> "PiAttributeAssignment", id |-> id, object |-> object, attr |-> attr,
     value |-> value]

\* entry of the function-definition table
PiFunctionDefNode(name, arg_names, vararg, body) ==
    [name |-> name, arg_names |-> arg_names, vararg |-> vararg, body |-> body]

\* vararg of a definition without variadic parameter (None in the source)
NoVararg == ""

-----------------------------------------------------------------------------
(* PROGRAMS *)

(* The programs the evaluator is run on.  input = [scn, a, b, c] names a  *)
(* program family scn and its three parameters; Program is the list of     *)
(* top-level statements, FuncDef the table of function definitions.        *)

\* ids of the nodes of the programs that the properties refer to; ArityArg
\* and CtorArg are the ids before the first literal argument of a call
Id ==
    [BrkLoop |-> 100,
     BrkSignal |-> 110,
     BrkCall |-> 120,
     BrkReached |-> 130,
     NestOuter |-> 150,
     NestInner |-> 160,
     NestPre |-> 161,
     NestBreak |-> 162,
     NestDead |-> 163,
     NestPost |-> 170,
     RetCall |-> 200,
     RetPre |-> 220,
     RetReturn |-> 221,
     RetDead |-> 222,
     RetAfterLoops |-> 210,
     ShadowCall |-> 300,
     ShadowRead |-> 330,
     ArityCall |-> 400,
     ArityBody |-> 410,
     ArityArg |-> 420,
     CtorCall |-> 500,
     CtorSet |-> 510,
     CtorDead |-> 515,
     CtorArg |-> 520,
     AliasLoop |-> 600,
     AliasCall |-> 630,
     AndOr |-> 700,
     AndOrLeft |-> 701,
     AndOrRight |-> 702,
     WhLoop |-> 800,
     Misc |-> 900]

Num(id, n) == PiNumber(id, n)
Var(id, name) == PiVariable(id, name)
Asg(id, name, value) == PiAssignment(id, name, value)
Call(id, function, args) == PiFunctionCall(id, function, args)
\* the numbers base+1 .. base+m as literal arguments, with ids base+1 ..
NumArgs(base, m) == [i \in 1..m |-> PiNumber(base + i, base + i)]

\* ---- "brk": a loop whose body calls a callee that executes break/continue
\*   a: 1 while loop, 2 for loop;  b: 1 break, 2 continue
\*   c: 1 function f(), 2 method o.m(), 3 constructor K() with __init__

BrkFuncDef ==
    PiFunctionDefNode(
        CASE input.c = 1 -> "f" [] input.c = 2 -> "m" [] OTHER -> "__init__",
        IF input.c = 1 THEN <<>> ELSE <<"self">>,
        NoVararg,
        <<IF input.b = 1 THEN PiBreak(Id.BrkSignal) ELSE PiContinue(Id.BrkSignal)>>)

BrkCall ==
    CASE input.c = 1 -> Call(Id.BrkCall, Var(121, "f"), <<>>)
      [] input.c = 2 -> Call(Id.BrkCall, PiAttribute(121, Var(122, "o"), "m"), <<>>)
      [] OTHER -> Call(Id.BrkCall, Var(121, "K"), <<>>)

BrkProgram ==
    (CASE input.c = 1 -> <<PiFunctionDef(101, 1)>>
       [] input.c = 2 -> <<PiClassDef(101, "K", <<1>>),
                           Asg(102, "o", Call(103, Var(104, "K"), <<>>))>>
       [] OTHER -> <<PiClassDef(101, "K", <<1>>)>>)
    \o (IF input.a = 1
        THEN <<Asg(105, "go", PiBool(106, TRUE)),
               PiWhile(Id.BrkLoop, Var(107, "go"),
                       <<Asg(108, "go", PiBool(109, FALSE)), BrkCall,
                         Asg(Id.BrkReached, "reached", PiBool(131, TRUE))>>)>>
        ELSE <<PiFor(Id.BrkLoop, "i", PiList(107, <<Num(108, 1), Num(109, 2)>>),
                     <<BrkCall, Asg(Id.BrkReached, "reached", PiBool(131, TRUE))>>)>>)
    \o <<Asg(140, "done", PiBool(141, TRUE))>>

\* ---- "nest": an inner loop that breaks, inside an outer loop of two iterations
\*   a: inner loop 1 while, 2 for;  b: outer loop 1 while, 2 for

NestInner ==
    LET body == <<Asg(Id.NestPre, "pre", Num(164, 1)), PiBreak(Id.NestBreak),
                  Asg(Id.NestDead, "dead", Num(165, 1))>>
    IN  IF input.a = 1
        THEN PiWhile(Id.NestInner, PiBool(166, TRUE), body)
        ELSE PiFor(Id.NestInner, "j", PiTuple(166, <<Num(167, 1), Num(168, 2)>>), body)

NestProgram ==
    IF input.b = 1
    THEN <<Asg(151, "g", PiBool(152, TRUE)), Asg(153, "h", PiBool(154, TRUE)),
           PiWhile(Id.NestOuter, Var(155, "g"),
                   <<Asg(156, "g", Var(157, "h")), Asg(158, "h", PiBool(159, FALSE)),
                     NestInner, Asg(Id.NestPost, "post", Num(171, 1))>>)>>
    ELSE <<PiFor(Id.NestOuter, "i", PiList(155, <<Num(156, 1), Num(157, 2)>>),
                 <<NestInner, Asg(Id.NestPost, "post", Var(171, "i"))>>)>>

\* ---- "ret": a function returning from inside b nested loops
\*   a: loops are 1 while, 2 for;  b: nesting depth;  c: the number returned
\* id of the statement after the loop nested at level k, and of that loop
RetAfterId(k) == 230 + k
RetLoopId(k) == 240 + k

RECURSIVE RetNest(_)
RetNest(k) ==
    IF k = 0
    THEN <<Asg(Id.RetPre, "pre", Num(223, 1)),
           PiReturn(Id.RetReturn, Num(224, input.c)),
           Asg(Id.RetDead, "dead", Num(225, 1))>>
    ELSE LET body == RetNest(k - 1) \o <<Asg(RetAfterId(k), "after", Num(226, k))>>
         IN  <<IF input.a = 1
               THEN PiWhile(RetLoopId(k), PiBool(227, TRUE), body)
               ELSE PiFor(RetLoopId(k), "i", PiList(227, <<Num(228, 1), Num(229, 2)>>),
                          body)>>

RetFuncDef ==
    PiFunctionDefNode("g", <<>>, NoVararg,
                      RetNest(input.b) \o <<Asg(Id.RetAfterLoops, "end", Num(211, 1))>>)

RetProgram ==
    <<PiFunctionDef(201, 2), Asg(Id.RetCall, "r", Call(202, Var(203, "g"), <<>>))>>

\* ---- "shadow": a callee binds the name x, which the caller's frame defines
\*   a: the binding is 1 a parameter, 2 an assignment, 3 a for-loop variable,
\*      4 a nested function definition, 5 a nested class definition
\*   b: the callee is 1 a function, 2 a method, 3 a closure returned by another
\*      call (its captured frame is that call's frame), 4 an __init__

ShadowFuncDef ==
    PiFunctionDefNode(
        CASE input.b = 1 -> "f" [] input.b = 2 -> "m" [] input.b = 3 -> "inner"
          [] OTHER -> "__init__",
        (IF input.b \in {2, 4} THEN <<"self">> ELSE <<>>)
            \o <<IF input.a = 1 THEN "x" ELSE "p">>,
        NoVararg,
        CASE input.a = 1 -> <<>>
          [] input.a = 2 -> <<Asg(310, "x", Num(311, 2))>>
          [] input.a = 3 -> <<PiFor(310, "x", PiList(311, <<Num(312, 3), Num(313, 4)>>),
                                    <<>>)>>
          [] input.a = 4 -> <<PiFunctionDef(310, 5)>>
          [] OTHER -> <<PiClassDef(310, "x", <<>>)>>)

ShadowOuterFuncDef ==
    PiFunctionDefNode("outer", <<>>, NoVararg,
                      <<Asg(320, "x", Num(321, 10)), PiFunctionDef(322, 3),
                        PiReturn(323, Var(324, "inner"))>>)

ShadowProgram ==
    <<Asg(301, "x", Num(302, 1))>>
    \o (CASE input.b = 1 ->
                <<PiFunctionDef(303, 3),
                  Call(Id.ShadowCall, Var(304, "f"), <<Num(305, 5)>>)>>
          [] input.b = 2 ->
                <<PiClassDef(303, "K", <<3>>),
                  Asg(306, "o", Call(307, Var(308, "K"), <<>>)),
                  Call(Id.ShadowCall, PiAttribute(304, Var(309, "o"), "m"),
                       <<Num(305, 5)>>)>>
          [] input.b = 3 ->
                <<PiFunctionDef(303, 4),
                  Asg(306, "g", Call(307, Var(308, "outer"), <<>>)),
                  Call(Id.ShadowCall, Var(304, "g"), <<Num(305, 5)>>)>>
          [] OTHER ->
                <<PiClassDef(303, "K", <<3>>),
                  Call(Id.ShadowCall, Var(304, "K"), <<Num(305, 5)>>)>>)
    \o <<Asg(Id.ShadowRead, "y", Var(331, "x"))>>

\* ---- "arity": f declares a fixed parameters and is called with b arguments
\*   c: 1 no variadic parameter, 2 a variadic parameter *rest
ParamNames == <<"p1", "p2", "p3", "p4">>

ArityFuncDef ==
    PiFunctionDefNode("f", SubSeq(ParamNames, 1, input.a),
                      IF input.c = 2 THEN "rest" ELSE NoVararg,
                      <<Asg(Id.ArityBody, "ran", PiBool(411, TRUE))>>)

ArityProgram ==
    <<PiFunctionDef(401, 6),
      Call(Id.ArityCall, Var(402, "f"), NumArgs(Id.ArityArg, input.b))>>

\* ---- "ctor": class K is called with b arguments
\*   a: 0 K has no __init__, 1 __init__(self, v), 2 __init__(this, v),
\*      3 __init__(self, v, *rest)

CtorFuncDef ==
    PiFunctionDefNode(
        "__init__",
        IF input.a = 2 THEN <<"this", "v">> ELSE <<"self", "v">>,
        IF input.a = 3 THEN "rest" ELSE NoVararg,
        <<PiAttributeAssignment(Id.CtorSet, Var(511, "self"), "v", Var(512, "v"))>>
        \o (IF input.a = 3
            THEN <<PiAttributeAssignment(518, Var(516, "self"), "r", Var(519, "rest"))>>
            ELSE <<PiReturn(513, Num(514, 7)),
                   PiAttributeAssignment(Id.CtorDead, Var(516, "self"), "w",
                                         Num(517, 1))>>))

CtorProgram ==
    <<PiClassDef(501, "K", IF input.a = 0 THEN <<>> ELSE <<7>>),
      Asg(Id.CtorCall, "o", Call(502, Var(503, "K"), NumArgs(Id.CtorArg, input.b)))>>

\* ---- "alias": for x in [1..a], each iteration defines a closure g returning x
\*      and pushes it on fs; afterwards the b-th closure from the top is called
\*   c: the iterable is 1 a list, 2 a tuple

RECURSIVE AliasChain(_)
AliasChain(k) ==
    IF k = 0 THEN Var(634, "fs")
    ELSE PiSubscript(635, AliasChain(k - 1), Num(636, 1))

AliasFuncDef ==
    PiFunctionDefNode("g", <<>>, NoVararg, <<PiReturn(610, Var(611, "x"))>>)

AliasProgram ==
    LET elements == [i \in 1..input.a |-> Num(603 + i, i)]
    IN  <<Asg(601, "fs", PiList(602, <<>>)),
          PiFor(Id.AliasLoop, "x",
                IF input.c = 1 THEN PiList(603, elements) ELSE PiTuple(603, elements),
                <<PiFunctionDef(620, 8),
                  Asg(621, "fs", PiList(622, <<Var(623, "g"), Var(624, "fs")>>))>>),
          Asg(Id.AliasCall, "r",
              Call(631, PiSubscript(632, AliasChain(input.b - 1), Num(633, 0)), <<>>))>>

\* ---- "andor": the expression  L and R  /  L or R
\*   a: 1 and, 2 or;  b: the left operand, an index of the table of LitNode
\*   c: the right operand is 1 the assignment y = 5, 2 an unbound variable,
\*      3 the empty list, 4 a variable holding a function closure

LitNode(id, b) ==
    CASE b = 1 -> PiBool(id, FALSE)
      [] b = 2 -> PiBool(id, TRUE)
      [] b = 3 -> Num(id, 0)
      [] b = 4 -> Num(id, 1)
      [] b = 5 -> PiString(id, <<>>)
      [] b = 6 -> PiString(id, <<"a">>)
      [] b = 7 -> PiNone(id)
      [] b = 8 -> PiList(id, <<>>)
      [] b = 9 -> PiList(id, <<Num(710, 1)>>)
      [] b = 10 -> PiTuple(id, <<>>)
      [] b = 11 -> PiTuple(id, <<Num(710, 1)>>)
      [] OTHER -> Var(id, "f")

AndOrFuncDef == PiFunctionDefNode("f", <<>>, NoVararg, <<>>)

AndOrRight ==
    CASE input.c = 1 -> Asg(Id.AndOrRight, "y", Num(703, 5))
      [] input.c = 2 -> Var(Id.AndOrRight, "nope")
      [] input.c = 3 -> PiList(Id.AndOrRight, <<>>)
      [] OTHER -> Var(Id.AndOrRight, "f")

AndOrProgram ==
    <<PiFunctionDef(704, 9),
      IF input.a = 1 THEN PiAnd(Id.AndOr, LitNode(Id.AndOrLeft, input.b), AndOrRight)
      ELSE PiOr(Id.AndOr, LitNode(Id.AndOrLeft, input.b), AndOrRight)>>

\* ---- "wh": a while loop of a iterations at most (a in 0..2); each iteration
\*      assigns w, and a complete one then assigns z as its last statement
\*   b: 2 or 3: the first iteration ends with the signal; 1 or 3: the second
\*   c: the signal is 1 break, 2 continue

WhBody ==
    <<Asg(812, "c", Var(813, "d")), Asg(814, "d", PiBool(815, FALSE)),
      Asg(816, "t", Var(817, "u")), Asg(818, "u", Num(819, 20)),
      PiIfThenElse(820, Var(821, "e"),
          <<Asg(822, "e", Var(823, "f")), Asg(824, "f", PiBool(825, FALSE)),
            Asg(826, "w", Var(827, "t")),
            IF input.c = 1 THEN PiBreak(828) ELSE PiContinue(828)>>,
          <<Asg(829, "e", Var(830, "f")), Asg(831, "f", PiBool(832, FALSE)),
            Asg(833, "w", Var(834, "t")), Asg(835, "z", Var(836, "w"))>>)>>

WhProgram ==
    <<Asg(801, "c", PiBool(802, input.a >= 1)), Asg(803, "d", PiBool(804, input.a >= 2)),
      Asg(805, "e", PiBool(806, input.b >= 2)),
      Asg(807, "f", PiBool(808, input.b % 2 = 1)),
      Asg(809, "u", Num(810, 10)),
      PiWhile(Id.WhLoop, Var(811, "c"), WhBody)>>

\* ---- "misc": one expression of the remaining forms

MiscProgram ==
    <<CASE input.a = 1 -> PiBinaryOperation(Id.Misc, Num(901, 1), "+", Num(902, 2))
        [] input.a = 2 -> PiNot(Id.Misc, Num(901, 0))
        [] input.a = 3 -> PiIn(Id.Misc, Num(901, 2), PiList(902, <<Num(903, 1), Num(904, 2)>>))
        [] input.a = 4 -> PiSubscript(Id.Misc, PiString(901, <<"a", "b">>), Num(902, -1))
        [] input.a = 5 -> PiIn(Id.Misc, PiString(901, <<"a">>),
                               PiString(902, <<"c", "a", "t">>))
        [] OTHER -> PiIn(Id.Misc, Num(901, 5), PiString(902, <<"h", "i">>))>>

MiscExpected ==
    CASE input.a = 1 -> VNumber(3)
      [] input.a = 2 -> VBool(TRUE)
      [] input.a = 3 -> VBool(TRUE)
      [] input.a = 4 -> VString(<<"b">>)
      [] input.a = 5 -> VBool(TRUE)
      [] OTHER -> VBool(FALSE)

\* the program family whose programs contain function definition fd
FuncDefScn ==
    <<"brk", "ret", "shadow", "shadow", "shadow", "arity", "ctor", "alias", "andor">>

\* the function-definition nodes of the program; a definition of another
\* family is not part of the program and reads as an empty function
FuncDef(fd) ==
    IF FuncDefScn[fd] # input.scn THEN PiFunctionDefNode("unused", <<>>, NoVararg, <<>>)
    ELSE CASE fd = 1 -> BrkFuncDef
           [] fd = 2 -> RetFuncDef
           [] fd = 3 -> ShadowFuncDef
           [] fd = 4 -> ShadowOuterFuncDef
           [] fd = 5 -> PiFunctionDefNode("x", <<>>, NoVararg, <<>>)
           [] fd = 6 -> ArityFuncDef
           [] fd = 7 -> CtorFuncDef
           [] fd = 8 -> AliasFuncDef
           [] OTHER -> AndOrFuncDef

NFuncDefs == Len(FuncDefScn)

Program ==
    CASE input.scn = "brk" -> BrkProgram
      [] input.scn = "nest" -> NestProgram
      [] input.scn = "ret" -> RetProgram
      [] input.scn = "shadow" -> ShadowProgram
      [] input.scn = "arity" -> ArityProgram
      [] input.scn = "ctor" -> CtorProgram
      [] input.scn = "alias" -> AliasProgram
      [] input.scn = "andor" -> AndOrProgram
      [] input.scn = "wh" -> WhProgram
      [] OTHER -> MiscProgram

Inputs ==
    [scn : {"brk"}, a : 1..2, b : 1..2, c : 1..3]
    \cup [scn : {"nest"}, a : 1..2, b : 1..2, c : {0}]
    \cup [scn : {"ret"}, a : 1..2, b : 1..MaxDepth, c : {0, 7}]
    \cup [scn : {"shadow"}, a : 1..5, b : 1..4, c : {0}]
    \cup [scn : {"arity"}, a : 0..MaxParams, b : 0..MaxArgs, c : 1..2]
    \cup [scn : {"ctor"}, a : 0..3, b : 0..MaxArgs, c : {0}]
    \cup {i \in [scn : {"alias"}, a : 1..MaxList, b : 1..MaxList, c : 1..2] : i.b <= i.a}
    \cup [scn : {"andor"}, a : 1..2, b : 1..12, c : 1..4]
    \cup [scn : {"wh"}, a : 0..2, b : 0..3, c : 1..2]
    \cup [scn : {"misc"}, a : 1..6, b : {0}, c : {0}]

-----------------------------------------------------------------------------
(* The evaluator (evaluator.py) *)

RECURSIVE evaluate_stmt(_, _, _)
RECURSIVE evaluate_from(_, _, _, _, _)
RECURSIVE eval_elements(_, _, _, _, _)
RECURSIVE while_loop(_, _, _, _, _)
RECURSIVE for_loop(_, _, _, _, _, _)
RECURSIVE method_body(_, _, _, _, _)
RECURSIVE bind_args(_, _, _, _, _)
RECURSIVE bind_method_args(_, _, _, _, _)
RECURSIVE _evaluate_function_call(_, _, _)
RECURSIVE _call_function(_, _, _, _)
RECURSIVE _call_method(_, _, _, _, _)

\* evaluate(): the statements of a list in order, from the i-th on; the value
\* of the lastv one, VNone for the empty list; an exception ends the loop
evaluate_from(nodes, i, env, s, lastv) ==
    IF i > Len(nodes) THEN Ok(s, lastv)
    ELSE LET r == evaluate_stmt(nodes[i], env, s)
         IN  IF r.sig # "ok" THEN r
             ELSE evaluate_from(nodes, i + 1, env, r.st, r.val)

evaluate(node, env, s) == evaluate_from(node, 1, env, s, VNone)

\* [evaluate_stmt(e, env) for e in elements]: left to right, val is the
\* sequence of the values
eval_elements(elements, i, env, s, acc) ==
    IF i > Len(elements) THEN Ok(s, acc)
    ELSE LET r == evaluate_stmt(elements[i], env, s)
         IN  IF r.sig # "ok" THEN r
             ELSE eval_elements(elements, i + 1, env, r.st, Append(acc, r.val))

_check_valid_piandor_type(obj) ==
    obj.k \in {"bool", "num", "str", "none", "list", "tuple"}

evaluate_PiNot(node, env, s) ==
    LET operand == evaluate_stmt(node.operand, env, s)
    IN  IF operand.sig # "ok" THEN operand
        ELSE IF ~_check_valid_piandor_type(operand.val)
             THEN Raise(operand.st, "TypeError")
             ELSE Ok(operand.st, VBool(~Truthy(operand.val)))

\* variant: `and` without the short circuit (the right operand is evaluated
\* before the left one is tested)
evaluate_PiAnd_eager(node, env, s) ==
    LET left == evaluate_stmt(node.left, env, s)
    IN  IF left.sig # "ok" THEN left
        ELSE IF ~_check_valid_piandor_type(left.val) THEN Raise(left.st, "TypeError")
        ELSE LET right == evaluate_stmt(node.right, env, left.st)
             IN  IF right.sig # "ok" THEN right
                 ELSE IF ~_check_valid_piandor_type(right.val)
                      THEN Raise(right.st, "TypeError")
                      ELSE IF ~Truthy(left.val) THEN Ok(right.st, left.val) ELSE right

evaluate_PiAnd(node, env, s) ==
    LET left == evaluate_stmt(node.left, env, s)
    IN  IF left.sig # "ok" THEN left
        ELSE IF ~_check_valid_piandor_type(left.val) THEN Raise(left.st, "TypeError")
        ELSE IF ~Truthy(left.val) THEN left
        ELSE LET right == evaluate_stmt(node.right, env, left.st)
             IN  IF right.sig # "ok" THEN right
                 ELSE IF ~_check_valid_piandor_type(right.val)
                      THEN Raise(right.st, "TypeError")
                      ELSE right

evaluate_PiOr(node, env, s) ==
    LET left == evaluate_stmt(node.left, env, s)
    IN  IF left.sig # "ok" THEN left
        ELSE IF ~_check_valid_piandor_type(left.val) THEN Raise(left.st, "TypeError")
        ELSE IF Truthy(left.val) THEN left
        ELSE LET right == evaluate_stmt(node.right, env, left.st)
             IN  IF right.sig # "ok" THEN right
                 ELSE IF ~_check_valid_piandor_type(right.val)
                      THEN Raise(right.st, "TypeError")
                      ELSE right

evaluate_PiAssignment(node, env, s) ==
    LET value == evaluate_stmt(node.value, env, s)
    IN  IF value.sig # "ok" THEN value
        ELSE Ok(insert(value.st, env, node.name, value.val), value.val)

evaluate_PiIfThenElse(node, env, s) ==
    LET cond == evaluate_stmt(node.condition, env, s)
    IN  IF cond.sig # "ok" THEN cond
        ELSE IF ~check_type_ok(cond.val, "bool") THEN Raise(cond.st, "TypeError")
        ELSE evaluate(IF cond.val.v THEN node.then_branch ELSE node.else_branch,
                      env, cond.st)

evaluate_PiFunctionDef(node, env, s) ==
    Ok(insert(s, env, FuncDef(node.fd).name, VFunctionClosure(node.fd, env)), VNone)

evaluate_PiReturn(node, env, s) ==
    LET value == evaluate_stmt(node.value, env, s)
    IN  IF value.sig # "ok" THEN value
        ELSE ReturnException(value.st, value.val)

\* variant: the loop has no `except BreakException`, a break leaves it as an
\* exception
while_loop_break_escapes(node, env, s, lastv, fuel) ==
    IF fuel = 0 THEN Raise(s, "Diverge")
    ELSE
    LET cond == evaluate_stmt(node.condition, env, s)
    IN  IF cond.sig # "ok" THEN cond
        ELSE IF ~check_type_ok(cond.val, "bool") THEN Raise(cond.st, "TypeError")
        ELSE IF ~cond.val.v THEN Ok(cond.st, lastv)
        ELSE LET body == evaluate(node.body, env, cond.st)
             IN  CASE body.sig = "ok" -> while_loop(node, env, body.st, body.val, fuel - 1)
                   [] body.sig = "continue" -> while_loop(node, env, body.st, lastv, fuel - 1)
                   [] OTHER -> body

\* variant: last_value is set to VNone at the start of every iteration, so an
\* iteration ended by break or continue forgets the earlier value
while_loop_reset(node, env, s, lastv, fuel) ==
    IF fuel = 0 THEN Raise(s, "Diverge")
    ELSE
    LET cond == evaluate_stmt(node.condition, env, s)
    IN  IF cond.sig # "ok" THEN cond
        ELSE IF ~check_type_ok(cond.val, "bool") THEN Raise(cond.st, "TypeError")
        ELSE IF ~cond.val.v THEN Ok(cond.st, lastv)
        ELSE LET body == evaluate(node.body, env, cond.st)
             IN  CASE body.sig = "ok" -> while_loop(node, env, body.st, body.val, fuel - 1)
                   [] body.sig = "break" -> Ok(body.st, VNone)
                   [] body.sig = "continue" -> while_loop(node, env, body.st, VNone, fuel - 1)
                   [] OTHER -> body

\* the body of the `while True:` loop of _evaluate_while, with fuel iterations left
while_loop(node, env, s, lastv, fuel) ==
    IF fuel = 0 THEN Raise(s, "Diverge")
    ELSE
    LET cond == evaluate_stmt(node.condition, env, s)
    IN  IF cond.sig # "ok" THEN cond
        ELSE IF ~check_type_ok(cond.val, "bool") THEN Raise(cond.st, "TypeError")
        ELSE IF ~cond.val.v THEN Ok(cond.st, lastv)
        ELSE LET body == evaluate(node.body, env, cond.st)
             IN  CASE body.sig = "ok" -> while_loop(node, env, body.st, body.val, fuel - 1)
                   [] body.sig = "break" -> Ok(body.st, lastv)
                   [] body.sig = "continue" -> while_loop(node, env, body.st, lastv, fuel - 1)
                   [] OTHER -> body

_evaluate_while(node, env, s) == while_loop(node, env, s, VNone, MaxIter)

\* variant: every iteration runs in a child frame of its own, which holds
\* the loop variable
for_loop_scoped(node, iterable, i, env, s, lastv) ==
    IF i > Len(iterable) THEN Ok(s, lastv)
    ELSE
    LET iter_env == NewFrame(s)
        s1 == insert(EnvFrame(s, env), iter_env, node.var, iterable[i])
        body == evaluate(node.body, iter_env, s1)
    IN  CASE body.sig = "ok" -> for_loop(node, iterable, i + 1, env, body.st, body.val)
          [] body.sig = "break" -> Ok(body.st, lastv)
          [] body.sig = "continue" -> for_loop(node, iterable, i + 1, env, body.st, lastv)
          [] OTHER -> body

\* the `for item in iterable:` loop of _evaluate_for, from the i-th item on
for_loop(node, iterable, i, env, s, lastv) ==
    IF i > Len(iterable) THEN Ok(s, lastv)
    ELSE
    LET s1 == insert(s, env, node.var, iterable[i])
        body == evaluate(node.body, env, s1)
    IN  CASE body.sig = "ok" -> for_loop(node, iterable, i + 1, env, body.st, body.val)
          [] body.sig = "break" -> Ok(body.st, lastv)
          [] body.sig = "continue" -> for_loop(node, iterable, i + 1, env, body.st, lastv)
          [] OTHER -> body

_evaluate_for(node, env, s) ==
    LET iterable_val == evaluate_stmt(node.iterable, env, s)
    IN  IF iterable_val.sig # "ok" THEN iterable_val
        ELSE IF iterable_val.val.k \notin {"list", "tuple"}
             THEN Raise(iterable_val.st, "TypeError")
             ELSE for_loop(node, iterable_val.val.v, 1, env, iterable_val.st, VNone)

\* seq[int(idx)] of Python: 0-based, negative indices count from the end
PyIndexOk(seq, idx) == -Len(seq) <= idx /\ idx < Len(seq)
PyIndex(seq, idx) == IF idx >= 0 THEN seq[idx + 1] ELSE seq[Len(seq) + idx + 1]

_evaluate_subscript(node, env, s) ==
    LET collection == evaluate_stmt(node.collection, env, s)
    IN  IF collection.sig # "ok" THEN collection
        ELSE
        LET index == evaluate_stmt(node.index, env, collection.st)
        IN  IF index.sig # "ok" THEN index
            ELSE IF collection.val.k \notin {"list", "tuple", "str"}
                 THEN Raise(index.st, "TypeError")
            ELSE IF ~check_type_ok(index.val, "num") THEN Raise(index.st, "TypeError")
            ELSE IF ~PyIndexOk(collection.val.v, index.val.v)
                 THEN Raise(index.st, "IndexError")
            ELSE IF collection.val.k = "str"
                 THEN Ok(index.st, VString(<<PyIndex(collection.val.v, index.val.v)>>))
                 ELSE Ok(index.st, PyIndex(collection.val.v, index.val.v))

\* `sub in str` of Python: str contains sub as a contiguous run
Substring(sub, str) ==
    \E i \in 0..(Len(str) - Len(sub)) : SubSeq(str, i + 1, i + Len(sub)) = sub

_evaluate_in(node, env, s) ==
    LET container == evaluate_stmt(node.container, env, s)
    IN  IF container.sig # "ok" THEN container
        ELSE
        LET element == evaluate_stmt(node.element, env, container.st)
        IN  IF element.sig # "ok" THEN element
            ELSE IF container.val.k \in {"list", "tuple"}
                 THEN Ok(element.st,
                         VBool(\E i \in 1..Len(container.val.v) :
                                   container.val.v[i] = element.val))
            ELSE IF container.val.k = "str"
                 THEN Ok(element.st,
                         VBool(element.val.k = "str"
                               /\ Substring(element.val.v, container.val.v)))
            ELSE Raise(element.st, "TypeError")

\* a native function of the primitive library applied to the argument list
VPrimitive(name) == [k |-> "prim", name |-> name]

prim_apply(name, args, s) ==
    IF name = "+" /\ Len(args) = 2 /\ args[1].k = "num" /\ args[2].k = "num"
    THEN Ok(s, VNumber(args[1].v + args[2].v))
    ELSE Raise(s, "TypeError")

\* the loop binding the positional parameters in _call_function, from the i-th on
bind_args(s, call_env, arg_names, args, i) ==
    IF i > Len(arg_names) THEN Ok(s, VNone)
    ELSE IF i <= Len(args)
         THEN bind_args(insert(s, call_env, arg_names[i], args[i]),
                        call_env, arg_names, args, i + 1)
         ELSE Raise(s, "TypeError")

\* variant: the body runs in the closure's captured frame itself, no call
\* frame is created
_call_function_shared_frame(func, args, env, s) ==
    LET call_env == func.closure_env
        funcdef == FuncDef(func.funcdef)
        arg_names == s.argn[func.funcdef]
        normal_arg_count == Len(arg_names)
        bound == bind_args(s, call_env, arg_names, args, 1)
    IN  IF bound.sig # "ok" THEN bound
        ELSE IF funcdef.vararg = NoVararg /\ Len(args) > normal_arg_count
             THEN Raise(bound.st, "TypeError")
        ELSE
        LET s2 == IF funcdef.vararg # NoVararg
                  THEN insert(bound.st, call_env, funcdef.vararg,
                              VList(SubSeq(args, normal_arg_count + 1, Len(args))))
                  ELSE bound.st
            result == evaluate_from(funcdef.body, 1, call_env, s2, VNone)
        IN  IF result.sig = "return" THEN Ok(result.st, result.val) ELSE result

\* variant: the number of arguments is not compared with the number of
\* parameters, extra arguments are dropped
_call_function_no_excess_check(func, args, env, s) ==
    LET call_env == NewFrame(s)
        s1 == EnvFrame(s, func.closure_env)
        funcdef == FuncDef(func.funcdef)
        arg_names == s.argn[func.funcdef]
        normal_arg_count == Len(arg_names)
        bound == bind_args(s1, call_env, arg_names, args, 1)
    IN  IF bound.sig # "ok" THEN bound
        ELSE
        LET s2 == IF funcdef.vararg # NoVararg
                  THEN insert(bound.st, call_env, funcdef.vararg,
                              VList(SubSeq(args, normal_arg_count + 1, Len(args))))
                  ELSE bound.st
            result == evaluate_from(funcdef.body, 1, call_env, s2, VNone)
        IN  IF result.sig = "return" THEN Ok(result.st, result.val) ELSE result

_call_function(func, args, env, s) ==
    LET call_env == NewFrame(s)
        s1 == EnvFrame(s, func.closure_env)
        funcdef == FuncDef(func.funcdef)
        arg_names == s.argn[func.funcdef]
        normal_arg_count == Len(arg_names)
        bound == bind_args(s1, call_env, arg_names, args, 1)
    IN  IF bound.sig # "ok" THEN bound
        ELSE IF funcdef.vararg = NoVararg /\ Len(args) > normal_arg_count
             THEN Raise(bound.st, "TypeError")
        ELSE
        LET s2 == IF funcdef.vararg # NoVararg
                  THEN insert(bound.st, call_env, funcdef.vararg,
                              VList(SubSeq(args, normal_arg_count + 1, Len(args))))
                  ELSE bound.st
            result == evaluate_from(funcdef.body, 1, call_env, s2, VNone)
        IN  IF result.sig = "return" THEN Ok(result.st, result.val) ELSE result

\* the loop binding the parameters after self in _call_method; i is the
\* enumerate index of the source (arg_names[1:], start=1)
bind_method_args(s, call_env, arg_names, args, i) ==
    IF i + 1 > Len(arg_names) THEN Ok(s, VNone)
    ELSE IF i < Len(args) + 1
         THEN bind_method_args(insert(s, call_env, arg_names[i + 1], args[i]),
                               call_env, arg_names, args, i + 1)
         ELSE Raise(s, "TypeError")

\* the body loop of _call_method: a ReturnException is swallowed and the value
\* of the last completed statement is the result
method_body(body, i, call_env, s, result) ==
    IF i > Len(body) THEN Ok(s, result)
    ELSE LET r == evaluate_stmt(body[i], call_env, s)
         IN  CASE r.sig = "ok" -> method_body(body, i + 1, call_env, r.st, r.val)
               [] r.sig = "return" -> Ok(r.st, result)
               [] OTHER -> r

_call_method(method, instance, args, env, s) ==
    LET call_env == NewFrame(s)
        s1 == EnvFrame(s, method.closure_env)
        fd == method.funcdef
    IN  IF Len(s1.argn[fd]) = 0 THEN Raise(s1, "IndexError")
        ELSE
        LET s2 == [s1 EXCEPT !.argn[fd][1] = "self"]
            s3 == insert(s2, call_env, "self", instance)
            bound == bind_method_args(s3, call_env, s3.argn[fd], args, 1)
        IN  IF bound.sig # "ok" THEN bound
            ELSE method_body(FuncDef(fd).body, 1, call_env, bound.st, VNone)

\* VObject(class_def, {}): the store with one more object, whose index is Len+1
NewObject(s, class_def) ==
    [s EXCEPT !.objs = Append(@, [class_def |-> class_def, attributes |-> EmptyVars])]

\* variant: a class call returns what __init__ returned
_evaluate_function_call_init_result(node, env, s) ==
    LET f == evaluate_stmt(node.function, env, s)
    IN  IF f.sig # "ok" THEN f
        ELSE
        LET a == eval_elements(node.args, 1, env, f.st, <<>>)
        IN  IF a.sig # "ok" THEN a
            ELSE
            LET isMethod == f.val.k = "method"
                args == IF isMethod THEN <<f.val.instance>> \o a.val ELSE a.val
                func_val == IF isMethod THEN f.val.function ELSE f.val
            IN  CASE func_val.k = "prim" -> prim_apply(func_val.name, a.val, a.st)
                  [] func_val.k = "class" ->
                        LET s1 == NewObject(a.st, func_val)
                            obj == VObject(Len(s1.objs))
                        IN  IF "__init__" \in DOMAIN func_val.methods
                            THEN _call_method(func_val.methods["__init__"],
                                              obj, args, env, s1)
                            ELSE Ok(s1, obj)
                  [] func_val.k = "closure" -> _call_function(func_val, args, env, a.st)
                  [] OTHER -> Raise(a.st, "TypeError")

_evaluate_function_call(node, env, s) ==
    LET f == evaluate_stmt(node.function, env, s)
    IN  IF f.sig # "ok" THEN f
        ELSE
        LET a == eval_elements(node.args, 1, env, f.st, <<>>)
        IN  IF a.sig # "ok" THEN a
            ELSE
            LET isMethod == f.val.k = "method"
                args == IF isMethod THEN <<f.val.instance>> \o a.val ELSE a.val
                func_val == IF isMethod THEN f.val.function ELSE f.val
            IN  CASE func_val.k = "prim" -> prim_apply(func_val.name, a.val, a.st)
                  [] func_val.k = "class" ->
                        LET s1 == NewObject(a.st, func_val)
                            obj == VObject(Len(s1.objs))
                        IN  IF "__init__" \in DOMAIN func_val.methods
                            THEN LET r == _call_method(func_val.methods["__init__"],
                                                       obj, args, env, s1)
                                 IN  IF r.sig # "ok" THEN r ELSE Ok(r.st, obj)
                            ELSE Ok(s1, obj)
                  [] func_val.k = "closure" -> _call_function(func_val, args, env, a.st)
                  [] OTHER -> Raise(a.st, "TypeError")

_evaluate_class_def(node, env, s) ==
    LET class_env == NewFrame(s)
        s1 == EnvFrame(s, env)
        names == {FuncDef(node.methods[i]).name : i \in 1..Len(node.methods)}
        \* a later definition of the same name replaces an earlier one
        lastOf(n) == CHOOSE i \in 1..Len(node.methods) :
                        /\ FuncDef(node.methods[i]).name = n
                        /\ \A j \in (i + 1)..Len(node.methods) :
                               FuncDef(node.methods[j]).name # n
        methods == [n \in names |-> VFunctionClosure(node.methods[lastOf(n)], class_env)]
    IN  Ok(insert(s1, env, node.name, VClassDef(node.name, methods)), VNone)

_evaluate_attribute(node, env, s) ==
    LET obj == evaluate_stmt(node.object, env, s)
    IN  IF obj.sig # "ok" THEN obj
        ELSE CASE obj.val.k = "object" ->
                    LET o == obj.st.objs[obj.val.ref]
                    IN  IF node.attr \in DOMAIN o.attributes
                        THEN Ok(obj.st, o.attributes[node.attr])
                        ELSE IF node.attr \in DOMAIN o.class_def.methods
                        THEN Ok(obj.st,
                                VMethodClosure(o.class_def.methods[node.attr], obj.val))
                        ELSE Raise(obj.st, "AttributeError")
               [] obj.val.k = "class" ->
                    IF node.attr \in DOMAIN obj.val.methods
                    THEN Ok(obj.st, obj.val.methods[node.attr])
                    ELSE Raise(obj.st, "AttributeError")
               [] OTHER -> Raise(obj.st, "TypeError")

_evaluate_attribute_assignment(node, env, s) ==
    LET obj == evaluate_stmt(node.object, env, s)
    IN  IF obj.sig # "ok" THEN obj
        ELSE
        LET value == evaluate_stmt(node.value, env, obj.st)
        IN  IF value.sig # "ok" THEN value
            ELSE IF obj.val.k # "object" THEN Raise(value.st, "TypeError")
            ELSE Ok([value.st EXCEPT !.objs[obj.val.ref].attributes =
                        [n \in (DOMAIN @) \cup {node.attr} |->
                            IF n = node.attr THEN value.val ELSE @[n]]],
                    value.val)

\* id of the nodes the evaluator builds itself (the call a binary operation
\* is rewritten to)
SyntheticId == 0

evaluate_PiBinaryOperation(node, env, s) ==
    evaluate_stmt(PiFunctionCall(SyntheticId, PiVariable(SyntheticId, node.operator),
                                 <<node.left, node.right>>), env, s)

evaluate_PiList(node, env, s) ==
    LET elements == eval_elements(node.elements, 1, env, s, <<>>)
    IN  IF elements.sig # "ok" THEN elements
        ELSE Ok(elements.st,
                IF node.tag = "PiList" THEN VList(elements.val) ELSE VTuple(elements.val))

\* the dispatch of evaluate_stmt on the type of the node
dispatch(node, env, s) ==
    CASE node.tag = "PiNumber" -> Ok(s, VNumber(node.value))
      [] node.tag = "PiClassDef" -> _evaluate_class_def(node, env, s)
      [] node.tag = "PiAttribute" -> _evaluate_attribute(node, env, s)
      [] node.tag = "PiAttributeAssignment" -> _evaluate_attribute_assignment(node, env, s)
      [] node.tag = "PiBool" -> Ok(s, VBool(node.value))
      [] node.tag = "PiNone" -> Ok(s, VNone)
      [] node.tag = "PiString" -> Ok(s, VString(node.value))
      [] node.tag \in {"PiList", "PiTuple"} -> evaluate_PiList(node, env, s)
      [] node.tag = "PiVariable" -> lookup(s, env, node.name)
      [] node.tag = "PiBinaryOperation" -> evaluate_PiBinaryOperation(node, env, s)
      [] node.tag = "PiAssignment" -> evaluate_PiAssignment(node, env, s)
      [] node.tag = "PiIfThenElse" -> evaluate_PiIfThenElse(node, env, s)
      [] node.tag = "PiNot" -> evaluate_PiNot(node, env, s)
      [] node.tag = "PiAnd" -> evaluate_PiAnd(node, env, s)
      [] node.tag = "PiOr" -> evaluate_PiOr(node, env, s)
      [] node.tag = "PiWhile" -> _evaluate_while(node, env, s)
      [] node.tag = "PiFunctionDef" -> evaluate_PiFunctionDef(node, env, s)
      [] node.tag = "PiReturn" -> evaluate_PiReturn(node, env, s)
      [] node.tag = "PiFunctionCall" -> _evaluate_function_call(node, env, s)
      [] node.tag = "PiFor" -> _evaluate_for(node, env, s)
      [] node.tag = "PiBreak" -> BreakException(s)
      [] node.tag = "PiContinue" -> ContinueException(s)
      [] node.tag = "PiIn" -> _evaluate_in(node, env, s)
      [] node.tag = "PiSubscript" -> _evaluate_subscript(node, env, s)
      [] OTHER -> Raise(s, "TypeError")

\* evaluate_stmt, with the entry recorded in the trace
evaluate_stmt(node, env, s) ==
    dispatch(node, env, [s EXCEPT !.trace = Append(@, node.id)])

-----------------------------------------------------------------------------
(* The driver: evaluate(program, env), one statement of the list per step *)

\* initial_env(): the root frame, holding the primitives
initial_env ==
    [frames |-> <<[vars |-> [n \in {"+"} |-> VPrimitive(n)], parent |-> 0]>>,
     objs |-> <<>>,
     argn |-> [fd \in 1..NFuncDefs |-> FuncDef(fd).arg_names],
     trace |-> <<>>]

RootEnv == 1

NoStep == [id |-> -1, sig |-> "none", val |-> VNone, trace |-> <<>>, pre |-> <<>>]

Init ==
    /\ input \in Inputs
    /\ pc = 1
    /\ st = initial_env
    /\ last_value = VNone
    /\ last = NoStep

\* the outcome of evaluate_stmt on the statement at pc, its trace started afresh
StepResult == evaluate_stmt(Program[pc], RootEnv, [st EXCEPT !.trace = <<>>])

Observed(r) ==
    [id |-> Program[pc].id, sig |-> r.sig, val |-> r.val, trace |-> r.st.trace,
     pre |-> st.frames]

\* one iteration of `for stmt in node: last_value = evaluate_stmt(stmt, env)`
StepOk ==
    /\ pc \in 1..Len(Program)
    /\ StepResult.sig = "ok"
    /\ st' = StepResult.st
    /\ last_value' = StepResult.val
    /\ last' = Observed(StepResult)
    /\ pc' = pc + 1
    /\ UNCHANGED input

\* the statement raises: the exception leaves evaluate(), no statement follows
StepRaise ==
    /\ pc \in 1..Len(Program)
    /\ StepResult.sig # "ok"
    /\ st' = StepResult.st
    /\ last' = Observed(StepResult)
    /\ pc' = 0
    /\ UNCHANGED <<input, last_value>>

Next == StepOk \/ StepRaise

Spec == Init /\ [][Next]_vars

\* number of entries of the trace of the last step that are id
Count(id) == Cardinality({i \in 1..Len(last.trace) : last.trace[i] = id})
\* position of the first entry id of the trace of the last step, 0 if none
First(id) ==
    IF Count(id) = 0 THEN 0
    ELSE CHOOSE i \in 1..Len(last.trace) :
            last.trace[i] = id /\ \A j \in 1..(i - 1) : last.trace[j] # id
Bound(env, name) == name \in DOMAIN st.frames[env].vars

-----------------------------------------------------------------------------
(* Sanity of the model *)

TypeOK ==
    /\ input \in Inputs
    /\ pc \in 0..Len(Program) + 1
    /\ last.sig # "Diverge"

\* the remaining expression forms evaluate to their Python values
MiscValues == (input.scn = "misc" /\ last.id = Id.Misc) =>
    last.sig = "ok" /\ last.val = MiscExpected

-----------------------------------------------------------------------------
(* Claims *)

RootVars == st.frames[RootEnv].vars

\* C1: a break or continue executed by a callee (function, method or __init__)
\* outside any loop of the callee is not caught by the loop of the caller whose
\* body made the call: evaluating that loop ends with the unhandled signal.
C1_SignalNotCaughtByCallerLoop ==
    (input.scn = "brk" /\ last.id = Id.BrkLoop) =>
        last.sig = (IF input.b = 1 THEN "break" ELSE "continue")

\* C2: a break in the inner loop ends the inner loop only, the outer loop runs
\* its next iteration (the statement after the inner loop runs in both outer
\* iterations, the statement after the break never); a return inside nested
\* loops of a function body ends the call with the returned value, no further
\* iteration and no later statement of the body runs.
C2_BreakInnerOnlyReturnEndsCall ==
    /\ (input.scn = "nest" /\ last.id = Id.NestOuter) =>
          /\ last.sig = "ok"
          /\ Count(Id.NestInner) = 2 /\ Count(Id.NestPre) = 2 /\ Count(Id.NestBreak) = 2
          /\ Count(Id.NestDead) = 0
          /\ Count(Id.NestPost) = 2
    /\ (input.scn = "ret" /\ last.id = Id.RetCall) =>
          /\ last.sig = "ok" /\ last.val = VNumber(input.c)
          /\ Count(Id.RetPre) = 1 /\ Count(Id.RetReturn) = 1
          /\ Count(Id.RetDead) = 0 /\ Count(Id.RetAfterLoops) = 0
          /\ \A k \in 1..input.b : Count(RetLoopId(k)) = 1 /\ Count(RetAfterId(k)) = 0

C2_Witness ==
    /\ input.scn = "ret" /\ input.a = 2 /\ input.b >= 2 /\ input.c = 7
    /\ last.id = Id.RetCall /\ Count(Id.RetReturn) = 1 /\ last.val = VNumber(7)

\* C3: a call (function, method, returned closure, constructor) whose callee
\* binds x as a parameter, by assignment, as a for-loop variable or by a nested
\* function/class definition binds it in the fresh call frame; every frame
\* that existed before the call (the caller's, the closure's captured frame,
\* their ancestors) maps the same names to the same values after the call,
\* and the caller still reads its own x.
C3_CallLeavesOuterFramesUnchanged ==
    /\ (input.scn = "shadow" /\ last.id = Id.ShadowCall) =>
          /\ last.sig = "ok"
          /\ Len(st.frames) > Len(last.pre)
          /\ \A i \in 1..Len(last.pre) : st.frames[i] = last.pre[i]
          /\ Bound(Len(last.pre) + 1, "x")
          /\ st.frames[Len(last.pre) + 1].vars["x"] # RootVars["x"]
    /\ (input.scn = "shadow" /\ last.id = Id.ShadowRead) =>
          last.sig = "ok" /\ last.val = VNumber(1)

C3_Witness ==
    /\ input.scn = "shadow" /\ input.a = 2 /\ input.b = 3
    /\ last.id = Id.ShadowCall /\ last.sig = "ok"
    /\ st.frames[Len(last.pre) + 1].vars["x"] = VNumber(2)
    /\ st.frames[st.frames[Len(last.pre) + 1].parent].vars["x"] = VNumber(10)
    /\ RootVars["x"] = VNumber(1)

\* C4: a closure with a fixed parameters and no variadic parameter called with
\* b arguments: b < a and b > a both raise TypeError with no statement of the
\* body executed; b = a binds the i-th argument to the i-th parameter in the
\* call frame and runs the body.
C4_ArityChecked ==
    (input.scn = "arity" /\ input.c = 1 /\ last.id = Id.ArityCall) =>
        IF input.b # input.a
        THEN last.sig = "TypeError" /\ Count(Id.ArityBody) = 0
        ELSE /\ last.sig = "ok" /\ Count(Id.ArityBody) = 1
             /\ \A i \in 1..input.a :
                    st.frames[Len(st.frames)].vars[ParamNames[i]]
                        = VNumber(Id.ArityArg + i)

C4_Witness ==
    /\ input.scn = "arity" /\ input.c = 1 /\ input.a >= 1 /\ input.b > input.a
    /\ last.id = Id.ArityCall /\ last.sig = "TypeError"

\* C5: a class call that completes yields the instance created by the call:
\* with an __init__ that assigns self.v and then returns 7, the result is the
\* instance, its attribute v is set and the returned 7 is discarded (the
\* statement after the return did not run); without __init__ the result is an
\* instance with no attribute.  The call completes whenever __init__ is
\* absent or is given exactly the argument it declares.
C5_ConstructorYieldsInstance ==
    (input.scn = "ctor" /\ last.id = Id.CtorCall) =>
        /\ (input.a = 0 \/ (input.a \in {1, 2} /\ input.b = 1)) => last.sig = "ok"
        /\ last.sig = "ok" =>
              /\ last.val = VObject(1) /\ Len(st.objs) = 1
              /\ RootVars["o"] = VObject(1)
              /\ st.objs[1].class_def.name = "K"
              /\ input.a = 0 => DOMAIN st.objs[1].attributes = {}
              /\ input.a \in {1, 2} =>
                    /\ DOMAIN st.objs[1].attributes = {"v"}
                    /\ st.objs[1].attributes["v"] = VNumber(Id.CtorArg + 1)
                    /\ Count(Id.CtorDead) = 0

C5_Witness ==
    /\ input.scn = "ctor" /\ input.a = 1 /\ input.b = 1
    /\ last.id = Id.CtorCall /\ last.sig = "ok" /\ Count(513) = 1
    /\ st.objs[1].attributes["v"] = VNumber(Id.CtorArg + 1)

\* C6: no evaluation changes an AST node: the parameter-name list of every
\* function definition is what the program text says.
C6_ASTNeverMutated ==
    \A fd \in 1..NFuncDefs : st.argn[fd] = FuncDef(fd).arg_names

\* C7: for x in [1..a] binds x in the current frame, without a frame per
\* iteration; the closure defined in any iteration, called after the loop,
\* returns the final value a of x (3 for [1,2,3]), and x stays bound to a.
C7_LoopVariableAliasing ==
    /\ (input.scn = "alias" /\ last.id = Id.AliasLoop) =>
          /\ last.sig = "ok"
          /\ Len(st.frames) = 1
          /\ Bound(RootEnv, "x") /\ RootVars["x"] = VNumber(input.a)
    /\ (input.scn = "alias" /\ last.id = Id.AliasCall) =>
          /\ last.sig = "ok" /\ last.val = VNumber(input.a)
          /\ RootVars["x"] = VNumber(input.a)

C7_Witness ==
    /\ input.scn = "alias" /\ input.a = 3 /\ input.b = 3
    /\ last.id = Id.AliasCall /\ last.val = VNumber(3)

\* value of the literal left operands of the table LitNode
LitValue(b) ==
    CASE b = 1 -> VBool(FALSE)
      [] b = 2 -> VBool(TRUE)
      [] b = 3 -> VNumber(0)
      [] b = 4 -> VNumber(1)
      [] b = 5 -> VString(<<>>)
      [] b = 6 -> VString(<<"a">>)
      [] b = 7 -> VNone
      [] b = 8 -> VList(<<>>)
      [] b = 9 -> VList(<<VNumber(1)>>)
      [] b = 10 -> VTuple(<<>>)
      [] OTHER -> VTuple(<<VNumber(1)>>)
LitFalsy == input.b \in {1, 3, 5, 7, 8, 10}
LitTruthy == input.b \in {2, 4, 6, 9, 11}

\* C8: when the left operand of `and` is falsy, or the left operand of `or` is
\* truthy, the right operand is not evaluated (it is not entered, its error
\* does not occur, its assignment does not happen) and the result is the left
\* operand's value; when the left operand is truthy for `and`, falsy for `or`,
\* the right operand is evaluated exactly once, after the left, and where the
\* expression yields a result it is the right operand's value as it is (5,
\* the empty list), not a boolean.
C8_ShortCircuit ==
    (input.scn = "andor" /\ last.id = Id.AndOr) =>
        /\ ((input.a = 1 /\ LitFalsy) \/ (input.a = 2 /\ LitTruthy)) =>
              /\ last.sig = "ok" /\ last.val = LitValue(input.b)
              /\ Count(Id.AndOrLeft) = 1 /\ Count(Id.AndOrRight) = 0
              /\ ~Bound(RootEnv, "y")
        /\ ((input.a = 1 /\ LitTruthy) \/ (input.a = 2 /\ LitFalsy)) =>
              /\ Count(Id.AndOrLeft) = 1 /\ Count(Id.AndOrRight) = 1
              /\ First(Id.AndOrLeft) < First(Id.AndOrRight)
              /\ input.c \in {1, 3} => last.sig = "ok"
              /\ last.sig = "ok" =>
                    last.val = (IF input.c = 1 THEN VNumber(5) ELSE VList(<<>>))
              /\ input.c = 1 => Bound(RootEnv, "y")

C8_Witness ==
    /\ input.scn = "andor" /\ input.a = 1 /\ input.b = 1 /\ input.c = 2
    /\ last.id = Id.AndOr /\ last.sig = "ok" /\ last.val = VBool(FALSE)

\* C9 as stated: the result of a while loop is the value of the last statement
\* executed in its body (here the last assignment to w), also when the last
\* iteration ended with break or continue; none if no iteration ran.
C9_LastExecutedStatement ==
    (input.scn = "wh" /\ last.id = Id.WhLoop) =>
        /\ last.sig = "ok"
        /\ last.val = (IF Bound(RootEnv, "w") THEN RootVars["w"] ELSE VNone)

\* C9 amended: the result of a while loop is the value of the last statement
\* of the body in the most recent iteration whose body ran to its end (here
\* the assignment to z), and none if no iteration ran to its end: zero
\* iterations, or every iteration ended with break or continue.
C9_LastCompletedIteration ==
    (input.scn = "wh" /\ last.id = Id.WhLoop) =>
        /\ last.sig = "ok"
        /\ last.val = (IF Bound(RootEnv, "z") THEN RootVars["z"] ELSE VNone)
        /\ input.a = 0 => last.val = VNone /\ ~Bound(RootEnv, "w")

C9_Witness ==
    /\ input.scn = "wh" /\ input.a = 2 /\ input.b = 1 /\ input.c = 2
    /\ last.id = Id.WhLoop /\ last.sig = "ok"
    /\ last.val = VNumber(10) /\ RootVars["w"] = VNumber(20)

\* C10: K(args) with __init__(self, v): more than one argument raises
\* TypeError, no argument raises TypeError before the body runs; with
\* __init__(self, v, *rest) the arguments after the first are bound to rest as
\* a list, in order.
C10_InitBindingRules ==
    (input.scn = "ctor" /\ input.a \in {1, 2, 3} /\ last.id = Id.CtorCall) =>
        /\ (input.a \in {1, 2} /\ input.b > 1) => last.sig = "TypeError"
        /\ input.b < 1 => last.sig = "TypeError" /\ Count(Id.CtorSet) = 0
        /\ (input.a = 3 /\ input.b >= 1) =>
              /\ last.sig = "ok"
              /\ st.objs[1].attributes["r"]
                    = VList([i \in 1..(input.b - 1) |-> VNumber(Id.CtorArg + 1 + i)])

====
